---- MODULE Spec2Model ----
(***************************************************************************)
(* A model of gcpy/obspack_fill.py: make_ObsPack_Input_netcdfs, the        *)
(* generator of one ObsPack input file per day of an observation window.   *)
(*                                                                         *)
(* Instants are naive datetimes, held as seconds since 1970-01-01.         *)
(* Strings are sequences of one-character strings, so that concatenation,  *)
(* padding, splitting and the 200-column character array of the source are *)
(* computed and not assumed.                                               *)
(***************************************************************************)
EXTENDS Integers, Sequences, FiniteSets, TLC

\* ------------------------------------------------------------------ bounds
\* The window's end lies at most MaxDays days after the first start day.
MaxDays == 2
\* The window's start lies at most MaxStartDay days after the first start day.
MaxStartDay == 1

\* -------------------------------------------------------- program constants
\* datetime.timedelta(days=1), in seconds
DaySeconds == 86400
\* the width of one row of the obspack_id character array
IdWidth == 200

\* -------------------------------------------------------------------- state
\* The arguments of the call, its locals, and the files under outpath.
\*   clamped  whether line 87 ran (the last segment was cut to the window end)
\*   t        the loop index of line 93
\*   ds       the dataset assembled by the current pass of the loop
\*   pc       "segment" (line 72), "loop" (line 93), "write" (line 201),
\*            "done" (returned), "error" (an exception left the function)
\*   disk     the files written by the call: path -> dataset
\*   result   the returned list
VARIABLES sitename, lat, lon, alt, datestart, dateend, samplefreq,
          sample_stragety, outpath,
          days, starts2Use, ends2Use, clamped, all_files, t, ds,
          pc, err, disk, result

args == <<sitename, lat, lon, alt, datestart, dateend, samplefreq,
          sample_stragety, outpath>>
segs == <<days, starts2Use, ends2Use, clamped>>
vars == <<args, segs, all_files, t, ds, pc, err, disk, result>>

\* ------------------------------------------------------------------ strings
DigitChars == <<"0", "1", "2", "3", "4", "5", "6", "7", "8", "9">>

DigitVal(c) == (CHOOSE d \in 1..10 : DigitChars[d] = c) - 1

RECURSIVE NatStr(_)
NatStr(n) == IF n < 10 THEN <<DigitChars[n + 1]>>
             ELSE NatStr(n \div 10) \o <<DigitChars[(n % 10) + 1]>>

\* str(i) of a Python int
IntStr(n) == IF n < 0 THEN <<"-">> \o NatStr(-n) ELSE NatStr(n)

Fill(w, c) == [i \in 1..w |-> c]

\* a number formatted by strftime / strptime's fixed-width fields (%Y, %m, ...)
ZeroPad(n, w) == LET s == NatStr(n)
                 IN IF Len(s) >= w THEN s ELSE Fill(w - Len(s), "0") \o s

RECURSIVE ParseNat(_)
\* int() of a string of digits
ParseNat(s) == IF s = <<>> THEN 0
               ELSE ParseNat(SubSeq(s, 1, Len(s) - 1)) * 10 + DigitVal(s[Len(s)])

\* str.ljust(w, c): pads on the right, never truncates
ljust(s, w, c) == IF Len(s) >= w THEN s ELSE s \o Fill(w - Len(s), c)

\* s.split(' ')[0]
SplitFirst(s) == IF \E i \in 1..Len(s) : s[i] = " "
                 THEN SubSeq(s, 1, (CHOOSE i \in 1..Len(s) :
                                       s[i] = " " /\ \A j \in 1..(i - 1) : s[j] # " ") - 1)
                 ELSE s

\* ----------------------------------------------------------------- calendar
\* The proleptic Gregorian calendar of datetime and pandas.
days_from_civil(y, m, d) ==
    LET yy  == IF m <= 2 THEN y - 1 ELSE y
        era == yy \div 400
        yoe == yy - era * 400
        mp  == IF m > 2 THEN m - 3 ELSE m + 9
        doy == (153 * mp + 2) \div 5 + d - 1
        doe == yoe * 365 + yoe \div 4 - yoe \div 100 + doy
    IN era * 146097 + doe - 719468

civil_from_days(z0) ==
    LET z   == z0 + 719468
        era == z \div 146097
        doe == z - era * 146097
        yoe == (doe - doe \div 1460 + doe \div 36524 - doe \div 146096) \div 365
        doy == doe - (365 * yoe + yoe \div 4 - yoe \div 100)
        mp  == (5 * doy + 2) \div 153
        d   == doy - (153 * mp + 2) \div 5 + 1
        m   == IF mp < 10 THEN mp + 3 ELSE mp - 9
        y   == yoe + era * 400 + (IF m <= 2 THEN 1 ELSE 0)
    IN <<y, m, d>>

\* datetime.datetime.strptime(s, '%Y%m%d %H:%M:%S'), for a well-formed s
strptime(s) ==
    days_from_civil(ParseNat(SubSeq(s, 1, 4)), ParseNat(SubSeq(s, 5, 6)),
                    ParseNat(SubSeq(s, 7, 8))) * DaySeconds
    + ParseNat(SubSeq(s, 10, 11)) * 3600 + ParseNat(SubSeq(s, 13, 14)) * 60
    + ParseNat(SubSeq(s, 16, 17))

\* the fields of an instant, as strftime prints them
strftime_Y(ts) == ZeroPad(civil_from_days(ts \div DaySeconds)[1], 4)
strftime_m(ts) == ZeroPad(civil_from_days(ts \div DaySeconds)[2], 2)
strftime_d(ts) == ZeroPad(civil_from_days(ts \div DaySeconds)[3], 2)
strftime_H(ts) == ZeroPad((ts % DaySeconds) \div 3600, 2)
strftime_M(ts) == ZeroPad(((ts % DaySeconds) % 3600) \div 60, 2)
strftime_S(ts) == ZeroPad((ts % DaySeconds) % 60, 2)

\* str(pandas.Timestamp): 'YYYY-MM-DD HH:MM:SS'
TimestampStr(ts) ==
    strftime_Y(ts) \o <<"-">> \o strftime_m(ts) \o <<"-">> \o strftime_d(ts) \o <<" ">>
    \o strftime_H(ts) \o <<":">> \o strftime_M(ts) \o <<":">> \o strftime_S(ts)

\* an input in the documented format 'YYYYMMDD HH:MM:SS'
InputStr(ts) ==
    strftime_Y(ts) \o strftime_m(ts) \o strftime_d(ts) \o <<" ">>
    \o strftime_H(ts) \o <<":">> \o strftime_M(ts) \o <<":">> \o strftime_S(ts)

\* pandas.date_range(a, b, freq=step seconds), step # 0: a, a+step, ... up to b
date_range(a, b, step) ==
    IF step > 0
    THEN IF b < a THEN <<>> ELSE [k \in 1..((b - a) \div step + 1) |-> a + (k - 1) * step]
    ELSE IF b > a THEN <<>> ELSE [k \in 1..((a - b) \div (-step) + 1) |-> a + (k - 1) * step]

\* seq[:n] of Python
SliceTo(seq, n) ==
    LET m == IF n >= 0 THEN (IF n < Len(seq) THEN n ELSE Len(seq))
             ELSE (IF Len(seq) + n > 0 THEN Len(seq) + n ELSE 0)
    IN SubSeq(seq, 1, m)

\* ------------------------------------------------- the steps of the function
\* a day is added whether or not time is left over
NumDays_AlwaysRoundUp(start, endd) == (endd - start) \div DaySeconds + 1

\* delta = endd - start; the number of files needed
NumDays(start, endd) ==
    LET delta_days    == (endd - start) \div DaySeconds
        delta_seconds == (endd - start) % DaySeconds
    IN IF delta_seconds # 0 THEN delta_days + 1 ELSE delta_days

\* starts = pd.date_range(datestart, dateend, freq='1D')
DayStarts(dstart, dend) == date_range(strptime(dstart), strptime(dend), DaySeconds)

\* the second is not taken off
DayEnds_WholeDay(starts) == [i \in 1..Len(starts) |-> starts[i] + DaySeconds]

\* ends2Use = starts2Use + timedelta(days=1) - timedelta(seconds=1)
DayEnds(starts) == [i \in 1..Len(starts) |-> starts[i] + DaySeconds - 1]

\* the first segment's end is tested instead of the last one's
MustClamp_First(ends, endd) == ends[1] > endd

\* if ends2Use[-1] > endd: on a Series that is not empty
MustClamp(ends, endd) == ends[Len(ends)] > endd

\* ends2Use[-1] = endd
ClampLast(ends, endd) == [ends EXCEPT ![Len(ends)] = endd]

\* dts = pd.date_range(starts2Use[t], ends2Use[t], freq=str(samplefreq) + 's')
SampleTimes(segstart, segend, freq) == date_range(segstart, segend, freq)

\* one row of time_components: strftime of each field, then astype(int)
Components(ts) ==
    <<ParseNat(strftime_Y(ts)), ParseNat(strftime_m(ts)), ParseNat(strftime_d(ts)),
      ParseNat(strftime_H(ts)), ParseNat(strftime_M(ts)), ParseNat(strftime_S(ts))>>

TimeComponents(dts) == [i \in 1..Len(dts) |-> Components(dts[i])]

\* prefix = sitename + '_from_' + datestart.split(' ')[0] + '_to_' + ... + '_n'
IdPrefix(site, dstart, dend) ==
    site \o <<"_", "f", "r", "o", "m", "_">> \o SplitFirst(dstart)
         \o <<"_", "t", "o", "_">> \o SplitFirst(dend) \o <<"_", "n">>

\* the row is cut to the array's width
IdRow_Truncating(prefix, i) == SubSeq(ljust(prefix \o IntStr(i), IdWidth, "_"), 1, IdWidth)

\* only the last digit of the index is written
IdRow_LastDigit(prefix, i) == ljust(prefix \o IntStr(i % 10), IdWidth, "_")

\* indv_row = list((prefix + stri).ljust(200, "_")), stri = str(i)
IdRow(prefix, i) == ljust(prefix \o IntStr(i), IdWidth, "_")

\* the rows that the loop over n builds, for a segment of cnt records (0-indexed)
IdRows(prefix, cnt) == [i \in 1..cnt |-> IdRow(prefix, i - 1)]

\* ids[count, :] = indv_row succeeds only for a row of exactly 200 characters:
\* numpy raises ValueError (cannot broadcast) otherwise
RowsFit(rows) == \A i \in 1..Len(rows) : Len(rows[i]) = IdWidth

\* np.full(len(dts), v)
Full(cnt, v) == [i \in 1..cnt |-> v]

\* ds = xr.Dataset({...})
Dataset(dts, rows, la, lo, al, strat) ==
    [latitude             |-> Full(Len(dts), la),
     longitude            |-> Full(Len(dts), lo),
     altitude             |-> Full(Len(dts), lo),
     time_components      |-> TimeComponents(dts),
     obspack_id           |-> rows,
     CT_sampling_strategy |-> Full(Len(dts), strat)]

\* the name carries the window's start date, not the segment's
FileName_WindowDate(site, freq, segstart) ==
    <<"o", "b", "s", "p", "a", "c", "k", "_">> \o site \o <<"_", "f", "r", "e", "q">>
    \o IntStr(freq) \o <<"s", ".">> \o SplitFirst(TimestampStr(strptime(datestart)))
    \o <<".", "n", "c">>

\* filename = 'obspack_' + sitename + '_freq' + str(samplefreq) + 's.' +
\*            str(starts2Use[t]).split(' ')[0] + '.nc'
FileName(site, freq, segstart) ==
    <<"o", "b", "s", "p", "a", "c", "k", "_">> \o site \o <<"_", "f", "r", "e", "q">>
    \o IntStr(freq) \o <<"s", ".">> \o SplitFirst(TimestampStr(segstart))
    \o <<".", "n", "c">>

\* ------------------------------------------------------------------- inputs
FirstDay == days_from_civil(2013, 5, 31)
TimesOfDay == {0, 12 * 3600, DaySeconds - 1}
StartInstants == {(FirstDay + d) * DaySeconds + s : d \in 0..MaxStartDay, s \in TimesOfDay}
EndInstants == {(FirstDay + d) * DaySeconds + s : d \in 0..MaxDays, s \in TimesOfDay}
\* site names of 3, 170 and 171 characters: the prefix is 28 characters longer
SiteNames == {Fill(3, "S"), Fill(IdWidth - 30, "S"), Fill(IdWidth - 29, "S")}
Freqs == {-3600, 0, 3600, 12 * 3600}
Lats == {32}
Lons == {-87, 125}
Alts == {125}
Strategies == {2}
OutPath == <<"o", "u", "t", "/">>

NoDataset == [latitude |-> <<>>, longitude |-> <<>>, altitude |-> <<>>,
              time_components |-> <<>>, obspack_id |-> <<>>,
              CT_sampling_strategy |-> <<>>]

\* the call is entered with its arguments bound; nothing is written yet
Init ==
    /\ sitename \in SiteNames
    /\ lat \in Lats /\ lon \in Lons /\ alt \in Alts
    /\ datestart \in {InputStr(i) : i \in StartInstants}
    /\ dateend \in {InputStr(i) : i \in EndInstants}
    /\ samplefreq \in Freqs
    /\ sample_stragety \in Strategies
    /\ outpath = OutPath
    /\ days = 0 /\ starts2Use = <<>> /\ ends2Use = <<>> /\ clamped = FALSE
    /\ all_files = <<>> /\ t = 0 /\ ds = NoDataset
    /\ pc = "segment" /\ err = "none"
    /\ disk = <<>>
    /\ result = <<>>

\* lines 73-90: the day segments.  ends2Use[-1] of an empty Series raises.
Segment ==
    /\ pc = "segment"
    /\ LET start  == strptime(datestart)
           endd   == strptime(dateend)
           n      == NumDays(start, endd)
           starts == SliceTo(DayStarts(datestart, dateend), n)
           ends   == DayEnds(starts)
       IN /\ days' = n
          /\ starts2Use' = starts
          /\ IF Len(ends) = 0
             THEN /\ ends2Use' = ends
                  /\ clamped' = FALSE
                  /\ pc' = "error" /\ err' = "IndexError"
             ELSE /\ clamped' = MustClamp(ends, endd)
                  /\ ends2Use' = IF MustClamp(ends, endd) THEN ClampLast(ends, endd)
                                 ELSE ends
                  /\ pc' = "loop" /\ err' = err
    /\ all_files' = <<>> /\ t' = 0
    /\ UNCHANGED <<args, ds, disk, result>>

\* lines 93-200: one pass of the loop body up to the assembled dataset.
\* date_range raises for a frequency of 0; a row that is not 200 characters
\* long raises at its assignment into the character array.
Build ==
    /\ pc = "loop" /\ t < Len(starts2Use)
    /\ IF samplefreq = 0
       THEN /\ pc' = "error" /\ err' = "FreqError" /\ ds' = ds
       ELSE LET dts  == SampleTimes(starts2Use[t + 1], ends2Use[t + 1], samplefreq)
                rows == IdRows(IdPrefix(sitename, datestart, dateend), Len(dts))
            IN IF RowsFit(rows)
               THEN /\ ds' = Dataset(dts, rows, lat, lon, alt, sample_stragety)
                    /\ pc' = "write" /\ err' = err
               ELSE /\ pc' = "error" /\ err' = "ValueError" /\ ds' = ds
    /\ UNCHANGED <<args, segs, all_files, t, disk, result>>

\* lines 201-210: the file is written under its name and the name is recorded
Write ==
    /\ pc = "write"
    /\ LET path == outpath \o FileName(sitename, samplefreq, starts2Use[t + 1])
       IN /\ disk' = [p \in DOMAIN disk \cup {path} |-> IF p = path THEN ds ELSE disk[p]]
          /\ all_files' = Append(all_files, path)
    /\ t' = t + 1
    /\ pc' = "loop"
    /\ UNCHANGED <<args, segs, ds, err, result>>

\* line 206: ds.to_netcdf raises (permissions, disk space); the call ends there
WriteFails ==
    /\ pc = "write"
    /\ pc' = "error" /\ err' = "PersistenceError"
    /\ UNCHANGED <<args, segs, all_files, t, ds, disk, result>>

\* line 212: return all_files
Return ==
    /\ pc = "loop" /\ t = Len(starts2Use)
    /\ result' = all_files
    /\ pc' = "done"
    /\ UNCHANGED <<args, segs, all_files, t, ds, err, disk>>

Next == Segment \/ Build \/ Write \/ WriteFails \/ Return

Spec == Init /\ [][Next]_vars

\* ---------------------------------------------------- what the claims read
\* start and endd of lines 73-74
Start == strptime(datestart)
Endd == strptime(dateend)

\* the segmentation has run
Segmented == pc # "segment"

NumSegments == Len(starts2Use)

\* the window's time-of-day remainder (delta.seconds)
Remainder == (Endd - Start) % DaySeconds

\* the records segment i gets at the call's frequency (a frequency other than 0)
SegmentTimes(i) == SampleTimes(starts2Use[i], ends2Use[i], samplefreq)

\* the unpadded identifier of record r (0-indexed)
Unpadded(r) == IdPrefix(sitename, datestart, dateend) \o IntStr(r)

\* the calendar date <<y, m, d>> that a file's name carries: ...YYYY-MM-DD.nc
NameDate(path) ==
    LET n == Len(path)
    IN <<ParseNat(SubSeq(path, n - 12, n - 9)), ParseNat(SubSeq(path, n - 7, n - 6)),
         ParseNat(SubSeq(path, n - 4, n - 3))>>

\* the window of the end-to-end example: 20130601 00:00:00 to 20130602 00:00:00
ExampleStart == <<"2", "0", "1", "3", "0", "6", "0", "1", " ",
                  "0", "0", ":", "0", "0", ":", "0", "0">>
ExampleEnd == <<"2", "0", "1", "3", "0", "6", "0", "2", " ",
                "0", "0", ":", "0", "0", ":", "0", "0">>
ExampleCall == datestart = ExampleStart /\ dateend = ExampleEnd /\ samplefreq = 3600

\* --------------------------------------------------------------------- C1
\* C1 as stated: for every window with end >= start the segments of a
\* completed call (at a positive frequency) start at start and end at end,
\* and the one-day example window at 3600 s gives exactly 2 files, of 24
\* records and of 1 record.
C1_CoversThroughEnd ==
    (pc = "done" /\ Endd >= Start /\ samplefreq > 0) =>
        /\ NumSegments >= 1
        /\ starts2Use[1] = Start
        /\ ends2Use[NumSegments] = Endd
        /\ ExampleCall =>
              /\ Len(result) = 2
              /\ Len(disk[result[1]].time_components) = 24
              /\ Len(disk[result[2]].time_components) = 1

\* C1 as amended: for every window with end >= start the segments start at
\* start, none is empty, each starts 1 second after the one before it ends,
\* and the last one ends at end when the window has a
\* time-of-day remainder and at end - 1 second when it spans whole days (no
\* segment at all when end = start); the one-day example window gives
\* exactly 1 file, the 24 hourly records of 2013-06-01.
C1_CoversUpToEnd ==
    (Segmented /\ Endd >= Start) =>
        /\ Len(ends2Use) = NumSegments
        /\ NumSegments = 0 <=> Endd = Start
        /\ NumSegments > 0 =>
              /\ starts2Use[1] = Start
              /\ ends2Use[NumSegments] = IF Remainder # 0 THEN Endd ELSE Endd - 1
              /\ \A i \in 1..NumSegments : starts2Use[i] <= ends2Use[i]
              /\ \A i \in 2..NumSegments : starts2Use[i] = ends2Use[i - 1] + 1
        /\ (ExampleCall /\ pc = "done") =>
              /\ Len(result) = 1
              /\ LET tc == disk[result[1]].time_components
                 IN /\ Len(tc) = 24
                    /\ \A i \in 1..24 : tc[i] = <<2013, 6, 1, i - 1, 0, 0>>

\* the example call has returned
C1_Witness ==
    /\ pc = "done" /\ ExampleCall
    /\ Len(result) = 1 /\ ends2Use[1] = Endd - 1

\* --------------------------------------------------------------------- C2
\* C2: for any window where end = start exactly one segment is produced,
\* covering that single instant.
C2_OneSegmentForInstant ==
    (Segmented /\ Endd = Start) =>
        /\ NumSegments = 1
        /\ starts2Use[1] = Start
        /\ ends2Use[1] = Endd
        /\ pc = "done" => Len(result) = 1

\* --------------------------------------------------------------------- C3
\* C3: a window of exactly k whole days (k >= 1, no time-of-day remainder)
\* gets exactly k segments, each 1 day minus 1 second long, none clamped.
C3_WholeDays ==
    (Segmented /\ Endd > Start /\ Remainder = 0) =>
        /\ NumSegments = (Endd - Start) \div DaySeconds
        /\ Len(ends2Use) = NumSegments
        /\ \A i \in 1..NumSegments : ends2Use[i] - starts2Use[i] = DaySeconds - 1
        /\ ~clamped

\* a window of two whole days, returned
C3_Witness ==
    /\ pc = "done" /\ Remainder = 0 /\ Endd - Start = 2 * DaySeconds
    /\ NumSegments = 2 /\ Len(result) = 2

\* --------------------------------------------------------------------- C4
\* C4: the altitude of every record of every written file is the alt input.
C4_AltitudeIsAlt ==
    \A p \in DOMAIN disk :
        \A i \in 1..Len(disk[p].altitude) : disk[p].altitude[i] = alt

\* --------------------------------------------------------------------- C5
\* C5: with a zero or negative sample frequency the call fails, writes no
\* file and returns no list.
C5_NonPositiveFreqRejected ==
    samplefreq <= 0 => (DOMAIN disk = {} /\ pc # "done")

\* --------------------------------------------------------------------- C6
\* C6: if some record of some segment has an unpadded identifier longer than
\* 200 characters, the call fails with nothing truncated and before any file
\* is written: it never gets to write or to return, and it stops in the
\* first pass of the loop.
C6_OverflowFailsBeforeAnyWrite ==
    (Segmented /\ samplefreq # 0
       /\ \E i \in 1..NumSegments :
             \E r \in 1..Len(SegmentTimes(i)) : Len(Unpadded(r - 1)) > IdWidth) =>
        /\ DOMAIN disk = {}
        /\ all_files = <<>>
        /\ ds = NoDataset
        /\ pc \in {"loop", "error"}
        /\ t = 0
        /\ pc = "error" => err = "ValueError"

\* an overflow stopped a call of two or more segments
C6_Witness ==
    /\ pc = "error" /\ err = "ValueError"
    /\ NumSegments >= 2
    /\ Len(Unpadded(0)) <= IdWidth /\ Len(Unpadded(10)) > IdWidth

\* --------------------------------------------------------------------- C7
\* C7: in each written file the identifiers are pairwise distinct and each is
\* exactly 200 characters: the prefix and index, then only '_'.
C7_IdsDistinctAndFixedWidth ==
    \A p \in DOMAIN disk :
        LET ids == disk[p].obspack_id
        IN /\ Len(ids) = Len(disk[p].time_components)
           /\ \A i \in 1..Len(ids) :
                 /\ Len(ids[i]) = IdWidth
                 /\ SubSeq(ids[i], 1, Len(Unpadded(i - 1))) = Unpadded(i - 1)
                 /\ \A k \in (Len(Unpadded(i - 1)) + 1)..IdWidth : ids[i][k] = "_"
                 /\ \A j \in 1..Len(ids) : i # j => ids[i] # ids[j]

\* a file of 24 records whose two-digit identifiers fill the 200 characters
C7_Witness ==
    \E p \in DOMAIN disk :
        /\ Len(disk[p].obspack_id) = 24
        /\ Len(Unpadded(10)) = IdWidth
        /\ disk[p].obspack_id[2][IdWidth] = "_"

\* --------------------------------------------------------------------- C8
\* C8: each segment's end plus 1 second is the next segment's start.
C8_Contiguous ==
    Segmented =>
        \A i \in 1..(NumSegments - 1) : ends2Use[i] + 1 = starts2Use[i + 1]

\* three segments, the last one clamped to the window's end
C8_Witness == pc = "done" /\ NumSegments = 3 /\ clamped

\* --------------------------------------------------------------------- C9
\* C9: at every point of a call the files written are those of the first j
\* segments, in order, each under its own path; a completed call returns
\* exactly these paths, one per segment.
C9_FilesAreFirstSegments ==
    Segmented =>
        LET j == Len(all_files)
        IN /\ j <= NumSegments
           /\ pc \in {"loop", "write", "done"} => j = t
           /\ DOMAIN disk = {all_files[i] : i \in 1..j}
           /\ Cardinality(DOMAIN disk) = j
           /\ \A i \in 1..j :
                 /\ NameDate(all_files[i]) = civil_from_days(starts2Use[i] \div DaySeconds)
                 /\ samplefreq # 0 =>
                       disk[all_files[i]].time_components
                           = TimeComponents(SegmentTimes(i))
           /\ \A i \in 1..(NumSegments - 1) : starts2Use[i] < starts2Use[i + 1]
           /\ pc = "done" => (result = all_files /\ j = NumSegments)

\* the writer failed on the third segment: the first two files stay
C9_Witness ==
    /\ pc = "error" /\ err = "PersistenceError"
    /\ NumSegments = 3 /\ Len(all_files) = 2 /\ Cardinality(DOMAIN disk) = 2

\* -------------------------------------------------------------------- C10
\* C10: every record of a written file has the year, month and day of the
\* date in the file's name.
C10_RecordsOfNamedDay ==
    \A p \in DOMAIN disk :
        \A i \in 1..Len(disk[p].time_components) :
            SubSeq(disk[p].time_components[i], 1, 3) = NameDate(p)

====
